---- MODULE Spec2Model ----
(***************************************************************************)
(* A model of src/src/signals.mjs: signal proxies (get/set/has/delete      *)
(* traps), the listener graph (listenersMap, computeMap), the dependency   *)
(* tracker stack (computeStack), the run-guard stack (reactStack) and      *)
(* update(fn) with its reactor closure.                                    *)
(*                                                                         *)
(* The library is synchronous and re-entrant: a write calls notifySet,     *)
(* which calls reactors, which call fn, which may write again.  The        *)
(* JavaScript call stack is the variable `stack`; each action is one step  *)
(* of the frame on top of it, and a caller's operation (Top...) starts     *)
(* only when the call stack is empty.                                      *)
(***************************************************************************)
EXTENDS Integers, Sequences, FiniteSets, TLC

VARIABLES
    store,          \* the target objects: cell <<signal, property>> -> value
    listeners,      \* listenersMap: cell -> the Set of reactors, in insertion order
    computeMap,     \* computeMap: reactor -> set of <<property, signal>> it was connected to
    computeStack,   \* computeStack: reactors whose fn is running, top last
    reactStack,     \* reactStack: the fns pushed by update
    signals,        \* signals: the fns that have an output signal
    nReactors,      \* the number of reactor closures created for each fn
    stack,          \* the JavaScript call stack of the library, top last
    op,             \* the caller's operation in progress, or the last one and its outcome
    runs,           \* reactor -> the number of runs started during the caller's operation
    reads,          \* reactor -> the cells read by its last completed runs, latest last
    program,        \* the fns the caller's program defines
    updated,        \* the fns for which a call of update has returned
    registered      \* signal property -> the reactors in the order in which each last joined its Set

vars == <<store, listeners, computeMap, computeStack, reactStack, signals,
          nReactors, stack, op, runs, reads, program, updated, registered>>

----------------------------------------------------------------------------
(* Bounds *)

\* The depth of the call stack at which the host raises RangeError.
MaxDepth == 6
\* A caller starts no new operation once this many stale entries are on computeStack.
MaxStale == 1
\* The largest number a caller writes to a property.
MaxVal == 1
\* The number of reactor closures the model can name for one fn.
MaxReactors == 2

----------------------------------------------------------------------------
(* Values.  JavaScript values are numbers here; undefined and NaN are coded. *)

Undefined == -1
NaN == -2

IsNum(v) == v >= 0

\* a !== b (line 7): NaN is unequal to itself
StrictNeq(a, b) == a # b \/ a = NaN

\* ToBoolean of a number or undefined
Truthy(v) == IsNum(v) /\ v # 0

\* v * 2
Mul2(v) == IF IsNum(v) THEN 2 * v ELSE NaN

\* a + b
Plus(a, b) == IF IsNum(a) /\ IsNum(b) THEN a + b ELSE NaN

\* (v + 1) % 3
Inc3(v) == IF IsNum(v) THEN (v + 1) % 3 ELSE NaN

----------------------------------------------------------------------------
(* The program that uses the library: one source signal and the functions  *)
(* it passes to update.                                                    *)

\* counter = signal({n: 0, flag: 0})
Counter == "counter"

\* The receiver a trap gets when the Proxy passes none (has, deleteProperty).
NoReceiver == "undefined"

Fns == {"dbl", "sum", "cond", "self", "rec", "has", "pick", "late", "re"}

\* The output signal of fn (signals.get(fn)).
Out(fn) == "out_" \o fn

Signals == {Counter} \cup {Out(f) : f \in Fns}

SourceCells == {<<Counter, "n">>, <<Counter, "flag">>}

Cells == SourceCells \cup
         {<<Out("dbl"), "d">>, <<Out("sum"), "e">>, <<Out("cond"), "c">>,
          <<Out("has"), "h">>, <<Out("pick"), "a">>, <<Out("pick"), "b">>,
          <<Out("late"), "l">>}

\* A reactor closure is named by its fn and the number of the update call
\* that created it.
Reactors == Fns \X (1 .. MaxReactors)

\* computeStack[computeStack.length-1] of an empty stack (line 54)
NoCompute == <<"undefined", 0>>

Ins(o, c) == [op |-> o, cell |-> c, arg |-> ""]

NoCell == <<"", "">>

\* The body of each fn, as the sequence of signal operations it performs:
\*   dbl  = () => ({d: counter.n * 2})
\*   sum  = () => ({e: counter.n + doubled.d})
\*   cond = () => ({c: counter.flag ? counter.n : 0})
\*   self = () => { counter.n = (counter.n + 1) % 3; return {} }
\*   rec  = () => { update(rec); return {} }
\*   has  = () => ({h: ('n' in counter) ? 1 : 0})
\*   pick = () => counter.flag ? {a: counter.n} : {b: counter.n}
\*   late = () => ({l: picked.a ? counter.n : 0})
\*   re   = () => { let v = counter.flag; if (v) v = counter.n;
\*                  counter.flag = (v + 1) % 3; return {} }
Prog(fn) ==
    CASE fn = "dbl"  -> << Ins("get", <<Counter, "n">>), Ins("ret", NoCell) >>
      [] fn = "sum"  -> << Ins("get", <<Counter, "n">>),
                           Ins("get", <<Out("dbl"), "d">>), Ins("ret", NoCell) >>
      [] fn = "cond" -> << Ins("get", <<Counter, "flag">>), Ins("jmpFalsy", NoCell),
                           Ins("get", <<Counter, "n">>), Ins("ret", NoCell) >>
      [] fn = "self" -> << Ins("get", <<Counter, "n">>),
                           Ins("setInc", <<Counter, "n">>), Ins("ret", NoCell) >>
      [] fn = "rec"  -> << [op |-> "update", cell |-> NoCell, arg |-> "rec"],
                           Ins("ret", NoCell) >>
      [] fn = "has"  -> << Ins("has", <<Counter, "n">>), Ins("ret", NoCell) >>
      [] fn = "pick" -> << Ins("get", <<Counter, "flag">>), Ins("get", <<Counter, "n">>),
                           Ins("ret", NoCell) >>
      [] fn = "late" -> << Ins("get", <<Out("pick"), "a">>), Ins("jmpFalsy", NoCell),
                           Ins("get", <<Counter, "n">>), Ins("ret", NoCell) >>
      [] fn = "re"   -> << Ins("get", <<Counter, "flag">>), Ins("jmpFalsy", NoCell),
                           Ins("get", <<Counter, "n">>),
                           Ins("setInc", <<Counter, "flag">>), Ins("ret", NoCell) >>

\* The object fn returns, as its <<key, value>> pairs in key order, given the
\* values fn has read.
ResultOf(fn, vals) ==
    CASE fn = "dbl"  -> << <<"d", Mul2(vals[1])>> >>
      [] fn = "sum"  -> << <<"e", Plus(vals[1], vals[2])>> >>
      [] fn = "cond" -> << <<"c", IF Truthy(vals[1]) THEN vals[2] ELSE 0>> >>
      [] fn = "has"  -> << <<"h", vals[1]>> >>
      [] fn = "pick" -> IF Truthy(vals[1]) THEN << <<"a", vals[2]>> >>
                                           ELSE << <<"b", vals[2]>> >>
      [] fn = "late" -> << <<"l", IF Truthy(vals[1]) THEN vals[2] ELSE 0>> >>
      [] OTHER       -> << >>

\* The caller's programs: each defines some of the fns.
Programs == {{"dbl", "sum"}, {"dbl", "cond"}, {"dbl", "self"}, {"dbl", "has"}, {"rec"},
             {"pick", "late"}, {"re"}}

\* The functions a fn's body refers to: their output signals must exist
\* before fn can run.
Needs(fn) ==
    CASE fn = "sum"  -> {"dbl"}
      [] fn = "late" -> {"pick"}
      [] OTHER       -> {}

----------------------------------------------------------------------------
(* Frames of the call stack *)

Frame(k, r) ==
    [k |-> k, r |-> r, pc |-> 1, vals |-> << >>, reads |-> {}, rest |-> << >>,
     keys |-> << >>, strict |-> FALSE]

\* notifySet, iterating the snapshot Array.from(listeners) (line 41)
NotifyFrame(snapshot) == [Frame("notify", NoCompute) EXCEPT !.rest = snapshot]

\* the trap deleteProperty, waiting for notifySet to return (line 20)
DeleteFrame(strict) == [Frame("delete", NoCompute) EXCEPT !.strict = strict]

Top == stack[Len(stack)]

Below == SubSeq(stack, 1, Len(stack) - 1)

\* the call stack with the frame on top moved to its next instruction
Advanced == [stack EXCEPT ![Len(stack)].pc = @ + 1]

AtInstr(o) ==
    /\ stack # << >>
    /\ Top.k = "fn"
    /\ Prog(Top.r[1])[Top.pc].op = o

Range(q) == {q[i] : i \in 1 .. Len(q)}

\* the last two elements of a sequence
LastTwo(q) == IF Len(q) <= 2 THEN q ELSE SubSeq(q, Len(q) - 1, Len(q))

Remove(q, x) == SelectSeq(q, LAMBDA y : y # x)

----------------------------------------------------------------------------
(* The caller's operation (bookkeeping of the model, not of the library) *)

NoRuns == [r \in Reactors |-> 0]

\* whether fn is running: an error thrown now is thrown through fn() (line 133)
InComputation == \E i \in 1 .. Len(stack) : stack[i].k = "fn"

BlankOp ==
    [kind |-> "none", cell |-> NoCell, val |-> Undefined, fn |-> "", strict |-> FALSE,
     status |-> "running", ret |-> Undefined, signal |-> "", cause |-> "",
     changed |-> FALSE, again |-> FALSE, notified |-> << >>, pruned |-> {},
     before |-> Undefined, thrown |-> FALSE, tracker |-> << >>, guard |-> << >>,
     order |-> << >>, registered |-> << >>]

\* A new operation of the caller: it records the two stacks as it finds
\* them, and whether an error has been thrown through a computation before.
NewOp(kind, cell, val, fn) ==
    [BlankOp EXCEPT !.kind = kind, !.cell = cell, !.val = val, !.fn = fn,
                    !.thrown = op.thrown, !.tracker = computeStack,
                    !.guard = reactStack]

\* The outcome when the call stack becomes `base`: the operation has
\* returned once the stack is empty.
Returned(o, base) == IF base = << >> THEN [o EXCEPT !.status = "ok"] ELSE o

\* An error thrown in the library or in fn: nothing catches it, the whole
\* call stack is unwound up to the caller.
Raise(o, kind) ==
    /\ stack' = << >>
    /\ op' = [o EXCEPT !.status = kind, !.thrown = @ \/ InComputation]

\* A call that pushes `frame` on the call stack `base`, or exhausts it.
Call(o, base, frame) ==
    IF Len(base) < MaxDepth
    THEN stack' = Append(base, frame) /\ op' = o
    ELSE Raise(o, "RangeError")

----------------------------------------------------------------------------
(* The listener graph, lines 61-107 *)

\* getListeners looking up a key that is never in listenersMap
GetListenersNone(self, property) == << >>

\* getListeners (lines 64-67): listenersMap.get(undefined) is undefined
GetListeners(self, property) ==
    IF self = NoReceiver THEN << >> ELSE listeners[<<self, property>>]

\* Set.add that puts a new member before the others
AddListenerFirst(self, property, compute) ==
    [listeners EXCEPT ![<<self, property>>] =
        IF compute \in Range(@) THEN @ ELSE <<compute>> \o @]

\* setListeners, lines 70-78: Set.add keeps the place of a member
AddListener(self, property, compute) ==
    [listeners EXCEPT ![<<self, property>>] =
        IF compute \in Range(@) THEN @ ELSE Append(@, compute)]

\* setListeners, lines 80-87
AddConnected(self, property, compute) ==
    [computeMap EXCEPT ![compute] = @ \cup {<<property, self>>}]

\* setListeners throws TypeError: listenersMap.set(undefined, ..) (line 71),
\* computeMap.set(undefined, ..) (line 81)
SetListenersThrows(self, compute) == self = NoReceiver \/ compute = NoCompute

\* clearListeners (lines 95-107): compute leaves the Set of every
\* <<property, signal>> of computeMap; computeMap itself is kept
ClearListeners(compute) ==
    [c \in Cells |->
        IF <<c[2], c[1]>> \in computeMap[compute]
        THEN Remove(listeners[c], compute)
        ELSE listeners[c]]

----------------------------------------------------------------------------
(* The dependency tracker, lines 53-59 *)

\* let currentCompute = computeStack[computeStack.length-1]
CurrentCompute ==
    IF computeStack = << >> THEN NoCompute ELSE computeStack[Len(computeStack)]

\* notifyGet without the test of line 55
TrackedAlways == TRUE

\* if (currentCompute)
Tracked == CurrentCompute # NoCompute

\* notifyGet(self, property): its effect on the graph, and whether it throws
NotifyGetThrows(self) == Tracked /\ SetListenersThrows(self, CurrentCompute)

\* line 77, when the Set does not hold currentCompute yet: it joins the Set
\* now, and is the last to have joined it
Register(self, property) ==
    IF Tracked /\ self # NoReceiver
              /\ CurrentCompute \notin Range(listeners[<<self, property>>])
    THEN [registered EXCEPT ![<<self, property>>] =
             Append(Remove(@, CurrentCompute), CurrentCompute)]
    ELSE registered

NotifyGet(self, property) ==
    /\ registered' = Register(self, property)
    /\ listeners' = IF Tracked /\ self # NoReceiver
                    THEN AddListener(self, property, CurrentCompute)
                    ELSE listeners
    /\ computeMap' = IF Tracked /\ ~SetListenersThrows(self, CurrentCompute)
                     THEN AddConnected(self, property, CurrentCompute)
                     ELSE computeMap

----------------------------------------------------------------------------
(* The traps of signalHandler, lines 1-23 *)

\* set without the test of line 7
ChangedAlways(c, value) == TRUE

\* set, line 7: target[property] !== value
Changed(c, value) == StrictNeq(store[c], value)

\* set (lines 6-12), called with the call stack `base` to return to
SignalSet(o, c, value, base) ==
    IF Changed(c, value)
    THEN /\ store' = [store EXCEPT ![c] = value]
         /\ Call(o, base, NotifyFrame(GetListeners(c[1], c[2])))
    ELSE /\ store' = store
         /\ stack' = base
         /\ op' = Returned(o, base)

\* The receiver the Proxy hands to the traps has and deleteProperty: they
\* are called with (target, property) only.
HasReceiver(c) == NoReceiver

DeleteReceiver(c) == NoReceiver

\* deleteProperty, line 18: typeof target[property] !== 'undefined'
Exists(c) == store[c] # Undefined

\* The value of the trap deleteProperty: it has no return statement.
DeleteTrapResult == FALSE

----------------------------------------------------------------------------
(* The initial state: counter = signal({n: 0, flag: 0}), nothing registered *)

Init ==
    /\ store = [c \in Cells |-> IF c \in SourceCells THEN 0 ELSE Undefined]
    /\ listeners = [c \in Cells |-> << >>]
    /\ computeMap = [r \in Reactors |-> {}]
    /\ computeStack = << >>
    /\ reactStack = << >>
    /\ signals = {}
    /\ nReactors = [f \in Fns |-> 0]
    /\ stack = << >>
    /\ op = BlankOp
    /\ runs = NoRuns
    /\ reads = [r \in Reactors |-> << >>]
    /\ program \in Programs
    /\ updated = {}
    /\ registered = [c \in Cells |-> << >>]

\* The caller runs between operations of the library.
Idle ==
    /\ stack = << >>
    /\ Len(computeStack) <= MaxStale

----------------------------------------------------------------------------
(* update(fn), lines 119-139 *)

\* line 120: reactStack.findIndex(f => fn==f) !== -1
Recursive(fn) == fn \in Range(reactStack)

\* lines 120-137, called with the call stack `base` to return to
Update(o, fn, base) ==
    IF Recursive(fn)
    THEN /\ Raise([o EXCEPT !.cause = fn], "RecursiveInvocation")
         /\ UNCHANGED <<reactStack, signals, nReactors>>
    ELSE /\ nReactors[fn] < MaxReactors
         /\ reactStack' = Append(reactStack, fn)
         /\ signals' = signals \cup {fn}
         /\ nReactors' = [nReactors EXCEPT ![fn] = @ + 1]
         /\ IF Len(base) + 2 <= MaxDepth
            THEN /\ stack' = base \o << Frame("update", <<fn, nReactors[fn] + 1>>),
                                        Frame("reactor", <<fn, nReactors[fn] + 1>>) >>
                 /\ op' = o
            ELSE Raise(o, "RangeError")

\* the caller calls update(fn)
TopUpdate(fn) ==
    /\ Idle
    /\ fn \in program
    /\ Needs(fn) \subseteq signals
    /\ Update([NewOp("update", NoCell, Undefined, fn) EXCEPT !.again = fn \in updated],
              fn, << >>)
    /\ runs' = NoRuns
    /\ UNCHANGED <<store, listeners, computeMap, computeStack, reads, program, updated, registered>>

\* fn calls update(g)
FnUpdate ==
    /\ AtInstr("update")
    /\ Update(op, Prog(Top.r[1])[Top.pc].arg, Advanced)
    /\ UNCHANGED <<store, listeners, computeMap, computeStack, runs, reads, program, updated, registered>>

\* line 138: return connectedSignal
UpdateReturn ==
    /\ stack # << >>
    /\ Top.k = "update"
    /\ stack' = Below
    /\ op' = IF Below = << >>
             THEN [op EXCEPT !.status = "ok", !.signal = Out(Top.r[1])]
             ELSE op
    /\ updated' = updated \cup {Top.r[1]}
    /\ UNCHANGED <<store, listeners, computeMap, computeStack, reactStack,
                   signals, nReactors, runs, reads, program, registered>>

----------------------------------------------------------------------------
(* reactor, lines 130-136 *)

\* line 132: computeStack.push(reactor)
Pushed(compute) == Append(computeStack, compute)

\* computeStack.pop that pops nothing
PoppedNot == computeStack

\* line 134: computeStack.pop()
Popped == SubSeq(computeStack, 1, Len(computeStack) - 1)

\* lines 131-133: clearListeners(reactor); computeStack.push(reactor); fn().
\* When the call stack is exhausted, any of the three calls may be the one
\* that fails.
ReactorEnter ==
    /\ stack # << >>
    /\ Top.k = "reactor"
    /\ Top.pc = 1
    /\ runs' = [runs EXCEPT ![Top.r] = @ + 1]
    /\ IF Len(stack) < MaxDepth
       THEN /\ listeners' = ClearListeners(Top.r)
            /\ computeStack' = Pushed(Top.r)
            /\ stack' = Append(Advanced, Frame("fn", Top.r))
            /\ op' = op
       ELSE \E failing \in {"clearListeners", "push", "fn"} :
            /\ listeners' = IF failing = "clearListeners" THEN listeners
                            ELSE ClearListeners(Top.r)
            /\ computeStack' = IF failing = "fn" THEN Pushed(Top.r)
                               ELSE computeStack
            /\ Raise(op, "RangeError")
    /\ UNCHANGED <<store, computeMap, reactStack, signals, nReactors, reads, program, updated, registered>>

\* an assignment that also clears a key of the output that result omits
AssignReplacing(fn, result) ==
    LET others == {c \in Cells : /\ c[1] = Out(fn)
                                 /\ store[c] # Undefined
                                 /\ \A i \in 1 .. Len(result) : result[i][1] # c[2]}
    IN IF others = {} THEN result
       ELSE Append(result, <<(CHOOSE c \in others : TRUE)[2], Undefined>>)

\* line 135, Object.assign(connectedSignal, result): the keys it sets, in
\* order, are the keys of result
Assign(fn, result) == result

\* fn returns (line 133), then line 134: computeStack.pop()
FnReturn ==
    /\ AtInstr("ret")
    /\ computeStack' = Popped
    /\ stack' = [Below EXCEPT ![Len(Below)].pc = 3,
                              ![Len(Below)].keys =
                                  Assign(Top.r[1], ResultOf(Top.r[1], Top.vals)),
                              ![Len(Below)].reads = Top.reads]
    /\ reads' = [reads EXCEPT ![Top.r] = LastTwo(Append(@, Top.reads))]
    /\ UNCHANGED <<store, listeners, computeMap, reactStack, signals, nReactors,
                   op, runs, program, updated, registered>>

\* line 135, Object.assign(connectedSignal, result): the next key is set
\* through the trap set of the output signal
ReactorAssign ==
    /\ stack # << >>
    /\ Top.k = "reactor"
    /\ Top.pc = 3
    /\ Top.keys # << >>
    /\ SignalSet(op, <<Out(Top.r[1]), Head(Top.keys)[1]>>, Head(Top.keys)[2],
                 [stack EXCEPT ![Len(stack)].keys = Tail(@)])
    /\ UNCHANGED <<listeners, computeMap, computeStack, reactStack, signals,
                   nReactors, runs, reads, program, updated, registered>>

\* line 136: the reactor returns
ReactorReturn ==
    /\ stack # << >>
    /\ Top.k = "reactor"
    /\ Top.pc = 3
    /\ Top.keys = << >>
    /\ stack' = Below
    /\ op' = Returned(op, Below)
    /\ UNCHANGED <<store, listeners, computeMap, computeStack, reactStack,
                   signals, nReactors, runs, reads, program, updated, registered>>

----------------------------------------------------------------------------
(* notifySet, lines 38-45 *)

\* a loop over the Set itself: the caller's write would visit the members
\* of the Set as it is now, the reactors that have joined it again included
PendingLive == IF Len(stack) = 1 THEN listeners[op.cell] ELSE Top.rest

\* line 41: the listeners of Array.from(listeners) not called yet
Pending == Top.rest

\* line 42: listener()
NotifyNext ==
    /\ stack # << >>
    /\ Top.k = "notify"
    /\ Pending # << >>
    /\ Call([op EXCEPT !.order = IF Len(stack) = 1 THEN Append(@, Head(Pending)) ELSE @],
            [stack EXCEPT ![Len(stack)].rest = Tail(Pending)],
            Frame("reactor", Head(Pending)))
    /\ UNCHANGED <<store, listeners, computeMap, computeStack, reactStack,
                   signals, nReactors, runs, reads, program, updated, registered>>

\* the loop of line 41 is over: notifySet returns, and so does the trap set
\* that called it (line 11)
NotifyReturn ==
    /\ stack # << >>
    /\ Top.k = "notify"
    /\ Pending = << >>
    /\ stack' = Below
    /\ op' = Returned(op, Below)
    /\ UNCHANGED <<store, listeners, computeMap, computeStack, reactStack,
                   signals, nReactors, runs, reads, program, updated, registered>>

----------------------------------------------------------------------------
(* The steps of fn (line 133): each signal operation goes through a trap *)

\* fn reads signal.property: get, lines 2-5
FnGet ==
    /\ AtInstr("get")
    /\ LET c == Prog(Top.r[1])[Top.pc].cell IN
       /\ NotifyGet(c[1], c[2])
       /\ IF NotifyGetThrows(c[1])
          THEN Raise(op, "TypeError")
          ELSE /\ stack' = [Advanced EXCEPT ![Len(stack)].vals = Append(@, store[c]),
                                            ![Len(stack)].reads = @ \cup {c}]
               /\ op' = op
    /\ UNCHANGED <<store, computeStack, reactStack, signals, nReactors, runs, reads, program, updated>>

\* fn tests property in signal: has, lines 13-16
FnHas ==
    /\ AtInstr("has")
    /\ LET c == Prog(Top.r[1])[Top.pc].cell IN
       /\ NotifyGet(HasReceiver(c), c[2])
       /\ IF NotifyGetThrows(HasReceiver(c))
          THEN Raise(op, "TypeError")
          ELSE /\ stack' = [Advanced EXCEPT
                               ![Len(stack)].vals = Append(@, IF Exists(c) THEN 1 ELSE 0),
                               ![Len(stack)].reads = @ \cup {c}]
               /\ op' = op
    /\ UNCHANGED <<store, computeStack, reactStack, signals, nReactors, runs, reads, program, updated>>

\* fn writes signal.property = (the value it last read + 1) % 3: set, lines 6-12
FnSetInc ==
    /\ AtInstr("setInc")
    /\ SignalSet(op, Prog(Top.r[1])[Top.pc].cell, Inc3(Top.vals[Len(Top.vals)]),
                 Advanced)
    /\ UNCHANGED <<listeners, computeMap, computeStack, reactStack, signals,
                   nReactors, runs, reads, program, updated, registered>>

\* fn branches on the value it last read: the next operation is skipped
\* when the value is falsy
FnJmpFalsy ==
    /\ AtInstr("jmpFalsy")
    /\ stack' = [stack EXCEPT ![Len(stack)].pc =
                    IF Truthy(Top.vals[Len(Top.vals)]) THEN @ + 1 ELSE @ + 2]
    /\ UNCHANGED <<store, listeners, computeMap, computeStack, reactStack,
                   signals, nReactors, op, runs, reads, program, updated, registered>>

----------------------------------------------------------------------------
(* The caller's operations on the source signal *)

\* the reactors whose last completed run did not read c although the run
\* before it did, and that are not left on computeStack
Pruned(c) ==
    {r \in Reactors :
        /\ Len(reads[r]) = 2
        /\ c \in reads[r][1]
        /\ c \notin reads[r][2]
        /\ r \notin Range(computeStack)}

\* signal.property = value
TopSet(c, value) ==
    /\ Idle
    /\ SignalSet([NewOp("set", c, value, "") EXCEPT
                     !.ret = 1,
                     !.before = store[c],
                     !.changed = Changed(c, value),
                     !.notified = GetListeners(c[1], c[2]),
                     !.registered = registered[c],
                     !.pruned = Pruned(c)],
                 c, value, << >>)
    /\ runs' = NoRuns
    /\ UNCHANGED <<listeners, computeMap, computeStack, reactStack, signals,
                   nReactors, reads, program, updated, registered>>

\* signal.property
TopGet(c) ==
    /\ Idle
    /\ c \in SourceCells \/ \E f \in signals : c[1] = Out(f)
    /\ NotifyGet(c[1], c[2])
    /\ stack' = << >>
    /\ op' = [NewOp("get", c, Undefined, "") EXCEPT
                 !.ret = store[c],
                 !.status = IF NotifyGetThrows(c[1]) THEN "TypeError" ELSE "ok"]
    /\ runs' = NoRuns
    /\ UNCHANGED <<store, computeStack, reactStack, signals, nReactors, reads, program, updated>>

\* property in signal
TopHas(c) ==
    /\ Idle
    /\ NotifyGet(HasReceiver(c), c[2])
    /\ stack' = << >>
    /\ op' = [NewOp("has", c, Undefined, "") EXCEPT
                 !.ret = IF Exists(c) THEN 1 ELSE 0,
                 !.status = IF NotifyGetThrows(HasReceiver(c)) THEN "TypeError" ELSE "ok"]
    /\ runs' = NoRuns
    /\ UNCHANGED <<store, computeStack, reactStack, signals, nReactors, reads, program, updated>>

\* delete signal.property, lines 17-22; `strict` tells whether the caller
\* is strict mode code (the code of a module is)
TopDelete(c, strict) ==
    /\ Idle
    /\ LET o == [NewOp("delete", c, Undefined, "") EXCEPT
                    !.strict = strict,
                    !.before = store[c],
                    !.changed = Exists(c),
                    !.notified = listeners[c]]
       IN IF Exists(c)
          THEN /\ store' = [store EXCEPT ![c] = Undefined]
               /\ stack' = << DeleteFrame(strict),
                              NotifyFrame(GetListeners(DeleteReceiver(c), c[2])) >>
               /\ op' = o
          ELSE /\ store' = store
               /\ stack' = << DeleteFrame(strict) >>
               /\ op' = o
    /\ runs' = NoRuns
    /\ UNCHANGED <<listeners, computeMap, computeStack, reactStack, signals,
                   nReactors, reads, program, updated, registered>>

\* the trap deleteProperty returns (line 22): a falsish result makes the
\* delete operator of strict mode code throw TypeError, and makes it false
\* elsewhere
DeleteReturn ==
    /\ stack # << >>
    /\ Top.k = "delete"
    /\ stack' = << >>
    /\ op' = [op EXCEPT
                 !.ret = IF DeleteTrapResult THEN 1 ELSE 0,
                 !.status = IF Top.strict /\ ~DeleteTrapResult THEN "TypeError" ELSE "ok"]
    /\ UNCHANGED <<store, listeners, computeMap, computeStack, reactStack,
                   signals, nReactors, runs, reads, program, updated, registered>>

----------------------------------------------------------------------------

Next ==
    \/ \E fn \in Fns : TopUpdate(fn)
    \/ \E c \in SourceCells, value \in 0 .. MaxVal : TopSet(c, value)
    \/ \E c \in Cells : TopGet(c)
    \/ \E c \in SourceCells : TopHas(c)
    \/ \E c \in SourceCells, strict \in BOOLEAN : TopDelete(c, strict)
    \/ DeleteReturn
    \/ FnUpdate
    \/ UpdateReturn
    \/ ReactorEnter
    \/ FnGet
    \/ FnHas
    \/ FnSetInc
    \/ FnJmpFalsy
    \/ FnReturn
    \/ ReactorAssign
    \/ ReactorReturn
    \/ NotifyNext
    \/ NotifyReturn

Spec == Init /\ [][Next]_vars

----------------------------------------------------------------------------
(* Properties *)

Quiet == stack = << >>

CounterN == <<Counter, "n">>

DblD == <<Out("dbl"), "d">>

\* C1: a write that changes s.p re-runs every reactor that read s.p during
\* its last run exactly once before the write returns (no error having left
\* an entry on the tracker stack).
C1_ChangePropagation ==
    (op.kind = "set" /\ op.status = "ok" /\ op.changed /\ computeStack = << >>)
        => \A r \in Range(op.notified) : runs[r] = 1

\* C2: a write of a value strictly equal to the stored one runs no reactor,
\* leaves the stored values, the listener graph and both stacks unchanged,
\* and returns true; so does such a write made by Object.assign in a reactor.
C2_EqualWriteIsNoOp ==
    [][ /\ \A c \in SourceCells, value \in 0 .. MaxVal :
            (~StrictNeq(store[c], value) /\ TopSet(c, value))
                => /\ UNCHANGED <<store, listeners, computeMap, computeStack, reactStack>>
                   /\ runs' = NoRuns
                   /\ stack' = << >>
                   /\ op'.status = "ok"
                   /\ op'.ret = 1
        /\ ( /\ stack # << >>
             /\ Top.k = "reactor"
             /\ Top.pc = 3
             /\ Top.keys # << >>
             /\ ~StrictNeq(store[<<Out(Top.r[1]), Head(Top.keys)[1]>>], Head(Top.keys)[2])
             /\ ReactorAssign )
                => /\ UNCHANGED <<store, listeners, computeMap, computeStack, reactStack, runs>>
                   /\ Len(stack') = Len(stack)
      ]_vars

\* C2 witness: an equal write to a property that has listeners has returned.
C2_Witness ==
    /\ op.kind = "set"
    /\ op.status = "ok"
    /\ ~op.changed
    /\ op.notified # << >>
    /\ listeners[op.cell] = op.notified

\* C3: a reactor whose last completed run did not read s.p, although the run
\* before it did, is not run by a later write that changes s.p.
C3_StaleEdgePruning ==
    (op.kind = "set" /\ op.changed) => \A r \in op.pruned : runs[r] = 0

\* C4: a second update(fn), made after the first has returned, succeeds,
\* returns the same output signal and leaves fn with one reactor.
C4_OutputMemoization ==
    (op.kind = "update" /\ op.again /\ Quiet)
        => /\ op.status = "ok"
           /\ op.signal = Out(op.fn)
           /\ \A c \in Cells : Cardinality({r \in Range(listeners[c]) : r[1] = op.fn}) <= 1

\* the fns of the programs whose run triggers a run of their own reactor
SelfTriggering == {"self", "rec"}

\* C5: a reactor that triggers its own re-run, by update(fn) in fn or by a
\* changing write to a property it has read, is never run inside its own
\* run, and the call ends in RecursiveInvocation with fn as its cause.
C5_RecursionGuard ==
    /\ \A i, j \in 1 .. Len(stack) :
          (i < j /\ stack[i].k = "fn" /\ stack[j].k = "fn") => stack[i].r # stack[j].r
    /\ (op.kind = "update" /\ op.fn \in SelfTriggering /\ ~op.again /\ Quiet)
          => (op.status = "RecursiveInvocation" /\ op.cause = op.fn)

C7_DeleteNotifies ==
    (op.kind = "delete" /\ op.changed /\ Quiet)
        => /\ store[op.cell] = Undefined
           /\ \A r \in Range(op.notified) : runs[r] >= 1

\* C8: the delete of a property that does not exist runs no reactor, changes
\* nothing and raises no error.
C8_IdempotentDelete ==
    (op.kind = "delete" /\ ~op.changed /\ Quiet)
        => /\ runs = NoRuns
           /\ store[op.cell] = Undefined
           /\ listeners[op.cell] = op.notified
           /\ op.status = "ok"

\* C9: `p in s` in a reactor's computation registers the reactor on (s, p)
\* and raises no error: update(has) returns with its reactor listening to
\* counter.n.
C9_HasIsTrackedRead ==
    (op.kind = "update" /\ op.fn = "has" /\ ~op.again /\ Quiet)
        => /\ op.status = "ok"
           /\ <<"has", 1>> \in Range(listeners[CounterN])

\* C10: a read made while the tracker stack is empty returns the stored
\* value, adds no edge to the listener graph and runs no reactor.
C10_UntrackedRead ==
    [][ \A c \in Cells :
            (computeStack = << >> /\ TopGet(c))
                => /\ UNCHANGED <<listeners, computeMap, store>>
                   /\ runs' = NoRuns
                   /\ stack' = << >>
                   /\ op'.status = "ok"
                   /\ op'.ret = store[c]
      ]_vars

\* C10 witness: the caller has read a property that reactors listen to, the
\* tracker stack being empty.
C10_Witness ==
    /\ op.kind = "get"
    /\ op.status = "ok"
    /\ computeStack = << >>
    /\ listeners[op.cell] # << >>

\* the reactors whose fn is on the call stack, outermost first
Running ==
    LET fns == SelectSeq(stack, LAMBDA f : f.k = "fn")
    IN [i \in 1 .. Len(fns) |-> fns[i].r]

\* C11: when a call of update by the caller has returned, the run-guard
\* stack is what it was before the call, empty, and fn is not in it.
C11_RunGuardScoped ==
    (op.kind = "update" /\ op.status = "ok")
        => /\ reactStack = op.guard
           /\ reactStack = << >>
           /\ op.fn \notin Range(reactStack)

\* C12: when an error thrown by a reactor's computation has reached the
\* caller, the tracker stack is what it was before the operation.
C12_TrackerRestoredOnFailure ==
    (Quiet /\ op.status \notin {"ok", "running"}) => computeStack = op.tracker

\* C13: as long as no computation has thrown, the tracker stack holds the
\* reactors whose computation is running, the one running now on top, and
\* is empty whenever the caller runs.
C13_TrackerEmptyAtRest ==
    ~op.thrown
        => /\ computeStack = Running
           /\ Quiet => computeStack = << >>

\* C13 witness: a reactor is being re-run inside the run of another one.
C13_Witness ==
    /\ ~op.thrown
    /\ Len(computeStack) = 2
    /\ computeStack[1] # computeStack[2]
    /\ Top.k = "fn"
    /\ Top.r = computeStack[2]

\* C14: the two indexes of the listener graph are inverses of each other in
\* every state: a reactor is in the forward set of a signal property exactly
\* when that property is in the reactor's back-edge set.
C14_IndexesAreInverses ==
    \A r \in Reactors, c \in Cells :
        r \in Range(listeners[c]) <=> <<c[2], c[1]>> \in computeMap[r]

\* the members of seq that are in set S, in the order of seq
Among(seq, S) == SelectSeq(seq, LAMBDA r : r \in S)

\* C15: the reactors that a write of the caller to a signal property has run
\* so far were run in the order in which each of them last joined the
\* listeners of that property before the write.
C15_NotificationOrder ==
    (op.kind = "set" /\ op.status \in {"running", "ok"})
        => op.order = Among(op.registered, Range(op.order))

\* C15 witness: a write has run two reactors, the one created last first,
\* because the other one re-registered on the property after it.
C15_Witness ==
    /\ op.kind = "set"
    /\ op.status = "ok"
    /\ Quiet
    /\ Len(op.order) = 2
    /\ Len(reactStack) = 2
    /\ op.order[1][1] = reactStack[2]
    /\ op.order[2][1] = reactStack[1]
    /\ op.order[1][2] = 1
    /\ op.order[2][2] = 1

\* C16: a write of the caller to a signal property runs the reactors that
\* were listeners of the property at the moment of the write, in that order
\* and each once: what it has run so far is the beginning of that list, and
\* all of it when the write has returned, whatever has joined or left the
\* listeners of the property since.
C16_NotificationSnapshot ==
    (op.kind = "set" /\ op.status \in {"running", "ok"})
        => /\ Len(op.order) <= Len(op.notified)
           /\ op.order = SubSeq(op.notified, 1, Len(op.order))
           /\ (op.status = "ok" /\ op.changed) => op.order = op.notified

\* C16 witness: a write has returned after a notified reactor left the
\* listeners and joined them again, and another reactor joined them during
\* the propagation: that one was run by the inner notification only.
C16_Witness ==
    /\ op.kind = "set"
    /\ op.status = "ok"
    /\ Quiet
    /\ op.notified # << >>
    /\ Range(op.notified) \subseteq Range(listeners[op.cell])
    /\ \E r \in Range(listeners[op.cell]) :
          /\ r \notin Range(op.notified)
          /\ runs[r] = 1

\* the cells read by the run of r that returned last
LastReads(r) == IF reads[r] = << >> THEN {} ELSE reads[r][Len(reads[r])]

\* C17: when no reactor is running and no computation has thrown, a
\* reactor is a listener of exactly the signal properties that its
\* computation read during the run of it that returned last.
C17_EdgesEqualLastReads ==
    (Quiet /\ ~op.thrown)
        => \A r \in Reactors, c \in Cells :
              r \in Range(listeners[c]) <=> c \in LastReads(r)

\* fn writes no signal and calls no update: it only reads, and returns
Pure(fn) == \A i \in 1 .. Len(Prog(fn)) : Prog(fn)[i].op \notin {"setInc", "update"}

\* what fn returns when it is evaluated on the values the signals hold now
RECURSIVE Exec(_, _, _)
Exec(fn, pc, vals) ==
    LET i == Prog(fn)[pc] IN
    CASE i.op = "get"      -> Exec(fn, pc + 1, Append(vals, store[i.cell]))
      [] i.op = "has"      -> Exec(fn, pc + 1, Append(vals, IF Exists(i.cell) THEN 1 ELSE 0))
      [] i.op = "jmpFalsy" -> Exec(fn, IF Truthy(vals[Len(vals)]) THEN pc + 1 ELSE pc + 2, vals)
      [] OTHER             -> ResultOf(fn, vals)

Computed(fn) == Exec(fn, 1, << >>)

\* C18: in a program whose fns only read (sources and each other's output,
\* without a cycle), when a write of the caller to a source has returned,
\* the output of every fn given to update holds, for every key of what fn
\* computes from the current values, that value.
C18_ConsistentAtQuiescence ==
    (op.kind = "set" /\ op.status = "ok" /\ Quiet /\ \A fn \in program : Pure(fn))
        => \A fn \in updated :
              \A i \in 1 .. Len(Computed(fn)) :
                  store[<<Out(fn), Computed(fn)[i][1]>>] = Computed(fn)[i][2]

PickA == <<Out("pick"), "a">>

PickB == <<Out("pick"), "b">>

\* C19: a step changes a property of the output signal of a reading fn only
\* to the value that fn's result has for that key, and a reactor calls the
\* listeners of an output property only when its result has a new value for
\* that key: a key that the result omits keeps its value, and notifies nobody.
C19_OutputKeysMerged ==
    [][/\ store' # store
            => \A c \in Cells, fn \in Fns :
                  (store'[c] # store[c] /\ c[1] = Out(fn) /\ Pure(fn))
                      => <<c[2], store'[c]>> \in Range(Computed(fn))
       /\ (/\ stack # << >>
           /\ Top.k = "reactor"
           /\ Len(stack') = Len(stack) + 1
           /\ stack'[Len(stack')].k = "notify")
            => \E kv \in Range(Computed(Top.r[1])) :
                  /\ StrictNeq(store[<<Out(Top.r[1]), kv[1]>>], kv[2])
                  /\ stack'[Len(stack')] = NotifyFrame(listeners[<<Out(Top.r[1]), kv[1]>>])
      ]_vars

\* C19 witness: a write has re-run pick, whose result now has the key b
\* only; the key a of an earlier run is still there, and its listener has
\* not been run.
C19_Witness ==
    /\ op.kind = "set"
    /\ op.status = "ok"
    /\ Quiet
    /\ runs[<<"pick", 1>>] = 1
    /\ Len(Computed("pick")) = 1
    /\ Computed("pick")[1][1] = "b"
    /\ store[PickA] # Undefined
    /\ store[PickB] # Undefined
    /\ <<"late", 1>> \in Range(listeners[PickA])
    /\ runs[<<"late", 1>>] = 0

\* C20: in a program whose fns only read (no reactor writes what it or a
\* reactor upstream of it reads), every write of the caller to a signal
\* property and every first call of update(fn) has returned normally when
\* the caller runs again.
C20_PropagationTerminates ==
    (/\ Quiet
     /\ \A fn \in program : Pure(fn)
     /\ \/ op.kind = "set"
        \/ op.kind = "update" /\ op.fn \notin Range(op.guard))
        => op.status = "ok"

====
